---- MODULE Spec2Model ----
(***************************************************************************)
(* Model of the fractal pattern-substitution engine of Fractal Spiro Paint *)
(* (src/src/tools/fractal/fractal_drawer.py, class FractalGenerator) and   *)
(* of its spirograph curve sampler (src/src/tools/spiro/spiro_drawer.py,   *)
(* class SpiroGenerator).                                                  *)
(*                                                                         *)
(* Numbers.  The engine computes on Python floats.  The model computes on  *)
(* exact rationals <<n, d>> (d > 0, lowest terms), i.e. the real-number    *)
(* semantics of the same expressions.  The trigonometry of the source is   *)
(* kept exact by the identities                                            *)
(*     hypot(dx, dy) * cos(atan2(dy, dx)) = dx                             *)
(*     hypot(dx, dy) * sin(atan2(dy, dx)) = dy                             *)
(* so only length^2 = dx^2 + dy^2 (a rational) is ever needed.             *)
(***************************************************************************)
EXTENDS Integers, Sequences, FiniteSets, TLC

\* ------------------------------------------------------------------ bounds
\* Coordinates of the inputs are the integers 0..MaxCoord.
MaxCoord == 1
\* Points of the one base shape of Spec.
MaxShapePts == 3
\* Points of the raw pattern.
MaxPatternPts == 3
\* generate is called with depth in -MaxNegDepth..MaxDepth.
MaxDepth == 2
MaxNegDepth == 1
\* SpecShapes: number of base shapes, points of each, points of the pattern.
MaxShapes == 2
MaxSmallPts == 2
MaxSmallPatternPts == 3
\* Scale-guard comparisons divide the parameters by 10^n for n in 1..MaxScaleExp.
MaxScaleExp == 4
MaxFlags == 3

\* ------------------------------------------------------- exact arithmetic
Abs(n) == IF n < 0 THEN -n ELSE n

RECURSIVE Gcd(_, _)
Gcd(a, b) == IF b = 0 THEN a ELSE Gcd(b, a % b)

\* The rational n/d in lowest terms with a positive denominator (d # 0).
Rat(n, d) ==
  LET g == Gcd(Abs(n), Abs(d))
      s == IF d < 0 THEN -1 ELSE 1
  IN  <<(s * n) \div g, (s * d) \div g>>

Zero == <<0, 1>>
RAdd(a, b) == Rat(a[1] * b[2] + b[1] * a[2], a[2] * b[2])
RSub(a, b) == Rat(a[1] * b[2] - b[1] * a[2], a[2] * b[2])
\* Products and quotients cancel common factors before they multiply.
RMul(a, b) ==
  LET g1 == Gcd(Abs(a[1]), b[2])
      g2 == Gcd(Abs(b[1]), a[2])
  IN  Rat((a[1] \div g1) * (b[1] \div g2), (a[2] \div g2) * (b[2] \div g1))
RDiv(a, b) ==
  LET g1 == Gcd(Abs(a[1]), Abs(b[1]))
      g2 == Gcd(a[2], b[2])
  IN  Rat((a[1] \div g1) * (b[2] \div g2), (a[2] \div g2) * (b[1] \div g1))
RNeg(a) == <<-a[1], a[2]>>

\* math.hypot(dx, dy) squared.
Length2(dx, dy) == RAdd(RMul(dx, dx), RMul(dy, dy))
\* length * math.cos(math.atan2(dy, dx)) and length * math.sin(math.atan2(dy, dx)).
LengthCos(dx, dy) == dx
LengthSin(dx, dy) == dy

\* ---------------------------------------------------------------- utilities
\* _points_to_polyline: [(points[i], points[i + 1]) for i in range(0, len(points), 2)]
PointsToPolyline(points) ==
  [k \in 1..((Len(points) + 1) \div 2) |-> <<points[2 * k - 1], points[2 * k]>>]

\* _polyline_to_points: points.extend([x, y]) for every (x, y)
PolylineToPoints(pl) ==
  [j \in 1..(2 * Len(pl)) |-> pl[(j + 1) \div 2][IF j % 2 = 1 THEN 1 ELSE 2]]

\* Python's s[1:], defined on the empty list too.
DropFirst(s) == IF s = <<>> THEN <<>> ELSE Tail(s)

\* ---------------------------------------------------- pattern normalization
\* One pass of the loop of _normalize_pattern: cos_a = cos(-angle) = dx / length,
\* sin_a = sin(-angle) = -dy / length, so rx / length = (tx*dx + ty*dy) / length^2.
\* Faulty variant: rotates by angle instead of -angle.
NormalizePointSameAngle(p, start, dx, dy) ==
  LET tx == RSub(p[1], start[1])
      ty == RSub(p[2], start[2])
      lcos == LengthCos(dx, dy)
      lsin == LengthSin(dx, dy)
      lrx == RSub(RMul(tx, lcos), RMul(ty, lsin))
      lry == RAdd(RMul(tx, lsin), RMul(ty, lcos))
  IN  <<RDiv(lrx, Length2(dx, dy)), RDiv(lry, Length2(dx, dy))>>

\* The code: rotates by -angle.
NormalizePoint(p, start, dx, dy) ==
  LET tx == RSub(p[1], start[1])
      ty == RSub(p[2], start[2])
      lcos == LengthCos(dx, RNeg(dy))
      lsin == LengthSin(dx, RNeg(dy))
      lrx == RSub(RMul(tx, lcos), RMul(ty, lsin))
      lry == RAdd(RMul(tx, lsin), RMul(ty, lcos))
  IN  <<RDiv(lrx, Length2(dx, dy)), RDiv(lry, Length2(dx, dy))>>

NormalizePattern(pattern) ==
  IF Len(pattern) < 2 THEN pattern
  ELSE LET start == pattern[1]
           end == pattern[Len(pattern)]
           dx == RSub(end[1], start[1])
           dy == RSub(end[2], start[2])
       IN  IF Length2(dx, dy) = Zero THEN pattern
           ELSE [k \in 1..Len(pattern) |-> NormalizePoint(pattern[k], start, dx, dy)]

\* ------------------------------------------------------- core fractal logic
\* _apply_pattern_to_segment: sx = px * length, rx = sx * cos_a - sy * sin_a, so
\* rx = px * (length * cos_a) - py * (length * sin_a).
\* Faulty variant: no length == 0 test.
ApplyPatternNoZeroCheck(segment, unit) ==
  LET x1 == segment[1][1]
      y1 == segment[1][2]
      dx == RSub(segment[2][1], x1)
      dy == RSub(segment[2][2], y1)
  IN  [k \in 1..Len(unit) |->
        LET px == unit[k][1]
            py == unit[k][2]
            rx == RSub(RMul(px, LengthCos(dx, dy)), RMul(py, LengthSin(dx, dy)))
            ry == RAdd(RMul(px, LengthSin(dx, dy)), RMul(py, LengthCos(dx, dy)))
        IN  <<RAdd(x1, rx), RAdd(y1, ry)>>]

\* Faulty variant: a zero-length segment gives the single point [segment[0]].
ApplyPatternZeroSingle(segment, unit) ==
  LET x1 == segment[1][1]
      y1 == segment[1][2]
      dx == RSub(segment[2][1], x1)
      dy == RSub(segment[2][2], y1)
  IN  IF Length2(dx, dy) = Zero THEN <<segment[1]>>
      ELSE [k \in 1..Len(unit) |->
             LET px == unit[k][1]
                 py == unit[k][2]
                 rx == RSub(RMul(px, LengthCos(dx, dy)), RMul(py, LengthSin(dx, dy)))
                 ry == RAdd(RMul(px, LengthSin(dx, dy)), RMul(py, LengthCos(dx, dy)))
             IN  <<RAdd(x1, rx), RAdd(y1, ry)>>]

\* Faulty variant: ry = sx * sin_a - sy * cos_a.
ApplyPatternSignSlip(segment, unit) ==
  LET x1 == segment[1][1]
      y1 == segment[1][2]
      dx == RSub(segment[2][1], x1)
      dy == RSub(segment[2][2], y1)
  IN  IF Length2(dx, dy) = Zero THEN <<segment[1], segment[2]>>
      ELSE [k \in 1..Len(unit) |->
             LET px == unit[k][1]
                 py == unit[k][2]
                 rx == RSub(RMul(px, LengthCos(dx, dy)), RMul(py, LengthSin(dx, dy)))
                 ry == RSub(RMul(px, LengthSin(dx, dy)), RMul(py, LengthCos(dx, dy)))
             IN  <<RAdd(x1, rx), RAdd(y1, ry)>>]

\* The code.
ApplyPatternToSegment(segment, unit) ==
  LET x1 == segment[1][1]
      y1 == segment[1][2]
      dx == RSub(segment[2][1], x1)
      dy == RSub(segment[2][2], y1)
  IN  IF Length2(dx, dy) = Zero THEN <<segment[1], segment[2]>>
      ELSE [k \in 1..Len(unit) |->
             LET px == unit[k][1]
                 py == unit[k][2]
                 rx == RSub(RMul(px, LengthCos(dx, dy)), RMul(py, LengthSin(dx, dy)))
                 ry == RAdd(RMul(px, LengthSin(dx, dy)), RMul(py, LengthCos(dx, dy)))
             IN  <<RAdd(x1, rx), RAdd(y1, ry)>>]

\* loop_range, as the number of its indices 0 .. LoopCount - 1: range(num_points)
\* for a closed shape, range(num_points - 1) for an open one.
\* Faulty variant: range(num_points - 1) whatever the flag.
LoopCountOpenOnly(num_points, is_closed_flag) ==
  IF num_points > 0 THEN num_points - 1 ELSE 0

LoopCount(num_points, is_closed_flag) ==
  IF is_closed_flag THEN num_points
  ELSE IF num_points > 0 THEN num_points - 1 ELSE 0

\* segment = (polyline[i], polyline[(i + 1) % num_points]), i counted from 0.
\* Faulty variant: the end index is clamped instead of wrapped.
SegmentNoWrap(pl, i) == <<pl[i + 1], pl[IF i + 2 > Len(pl) THEN Len(pl) ELSE i + 2]>>

Segment(pl, i) == <<pl[i + 1], pl[((i + 1) % Len(pl)) + 1]>>

\* The segments the for loop visits, in the order it visits them.
Segments(pl, is_closed_flag) ==
  [k \in 1..LoopCount(Len(pl), is_closed_flag) |-> Segment(pl, k - 1)]

\* What iteration i (from 0) appends to new_polyline: transformed, without its
\* first point when i > 0.
\* Faulty variant: the leading point is never dropped.
TransformedKeepFirst(segment, i, unit) == ApplyPatternToSegment(segment, unit)

\* Faulty variant: the leading point of segment 0 is dropped as well.
TransformedDropAlways(segment, i, unit) == DropFirst(ApplyPatternToSegment(segment, unit))

Transformed(segment, i, unit) ==
  LET t == ApplyPatternToSegment(segment, unit)
  IN  IF i > 0 THEN DropFirst(t) ELSE t

\* new_polyline after the first count iterations of the for loop.
RECURSIVE ExtendUpTo(_, _, _)
ExtendUpTo(segs, count, unit) ==
  IF count <= 0 THEN <<>>
  ELSE ExtendUpTo(segs, count - 1, unit) \o Transformed(segs[count], count - 1, unit)

\* One level of _apply_recursion below the depth test: the substitution round.
SubstitutionRound(pl, is_closed_flag, unit) ==
  LET segs == Segments(pl, is_closed_flag)
  IN  ExtendUpTo(segs, Len(segs), unit)

\* if depth <= 0: return polyline
\* Faulty variants: depth < 0, depth == 0.
BaseCaseBelowZero(depth) == depth < 0

BaseCaseOnlyZero(depth) == depth = 0

BaseCase(depth) == depth <= 0

RECURSIVE ApplyRecursion(_, _, _, _)
ApplyRecursion(pl, depth, is_closed_flag, unit) ==
  IF BaseCase(depth) THEN pl
  ELSE ApplyRecursion(SubstitutionRound(pl, is_closed_flag, unit),
                      depth - 1, is_closed_flag, unit)

\* generate as a function of the instance's fields and depth: the point lists of
\* the zipped (polyline, flag) pairs, those with fewer than 2 points left out.
RECURSIVE GenerateResult(_, _, _, _)
GenerateResult(polys, flags, depth, unit) ==
  IF polys = <<>> \/ flags = <<>> THEN <<>>
  ELSE (IF Len(Head(polys)) < 2 THEN <<>>
        ELSE <<PolylineToPoints(ApplyRecursion(Head(polys), depth, Head(flags), unit))>>)
       \o GenerateResult(Tail(polys), Tail(flags), depth, unit)

\* ------------------------------------------------- spirograph curve sampler
\* src/src/tools/spiro/spiro_drawer.py, class SpiroGenerator.  A number is a
\* rational <<n, d>>, or <<1, 1, e>>: the positive float 10^e of an exponent e
\* below every exponent of the rationals used (kept as its exponent).
IsTiny(x) == Len(x) = 3

\* val > 0
Positive(x) == IsTiny(x) \/ x[1] > 0

\* x < y
Less(x, y) ==
  IF IsTiny(x) THEN (IF IsTiny(y) THEN x[3] < y[3] ELSE y[1] > 0)
  ELSE IF IsTiny(y) THEN x[1] <= 0
  ELSE x[1] * y[2] < y[1] * x[2]

\* min(positive_values)
MinValue(S) == CHOOSE v \in S : \A w \in S : ~Less(w, v)

\* positive_values = [val for val in [self.R, self.r, self.d] if val > 0]
PositiveValues(fixed_radius, rolling_radius, pen_distance) ==
  {val \in {fixed_radius, rolling_radius, pen_distance} : Positive(val)}

\* -int(math.floor(math.log10(min_value))) for 0 < min_value < 1
RECURSIVE NegFloorLog10(_)
NegFloorLog10(x) ==
  IF IsTiny(x) THEN -x[3]
  ELSE IF ~Less(x, <<1, 10>>) THEN 1
  ELSE 1 + NegFloorLog10(RMul(x, <<10, 1>>))

\* n = -int(math.floor(math.log10(min_value))) + 1
ScaleExponent(min_value) == NegFloorLog10(min_value) + 1

\* 10 ** n, a Python int
RECURSIVE TenPower(_)
TenPower(n) == IF n <= 0 THEN 1 ELSE 10 * TenPower(n - 1)

\* The largest n for which the int 10 ** n converts to a float: the product
\* self.R * scale_factor raises OverflowError beyond it.
MaxFloat10Exp == 308

\* Whether _check_and_scale_parameters scales at all.
NeedsScaling(fixed_radius, rolling_radius, pen_distance) ==
  LET positive_values == PositiveValues(fixed_radius, rolling_radius, pen_distance)
  IN  positive_values # {} /\ Less(MinValue(positive_values), <<1, 1>>)

\* Whether its products by scale_factor overflow.
ScaleOverflows(fixed_radius, rolling_radius, pen_distance) ==
  /\ NeedsScaling(fixed_radius, rolling_radius, pen_distance)
  /\ ScaleExponent(MinValue(PositiveValues(fixed_radius, rolling_radius, pen_distance)))
       > MaxFloat10Exp

\* _check_and_scale_parameters where it returns:
\* <<R_scaled, r_scaled, d_scaled, scale_factor>>.
CheckAndScaleParameters(fixed_radius, rolling_radius, pen_distance) ==
  IF NeedsScaling(fixed_radius, rolling_radius, pen_distance)
  THEN LET min_value == MinValue(PositiveValues(fixed_radius, rolling_radius, pen_distance))
           scale_factor == <<TenPower(ScaleExponent(min_value)), 1>>
       IN  <<RMul(fixed_radius, scale_factor), RMul(rolling_radius, scale_factor),
             RMul(pen_distance, scale_factor), scale_factor>>
  ELSE <<fixed_radius, rolling_radius, pen_distance, <<1, 1>>>>

\* round(x): to the nearest integer, a tie to the even one.
RoundHalfEven(x) ==
  LET floor == x[1] \div x[2]
      twice == 2 * (x[1] - floor * x[2])
  IN  IF twice < x[2] THEN floor
      ELSE IF twice > x[2] THEN floor + 1
      ELSE IF floor % 2 = 0 THEN floor ELSE floor + 1

\* k = r_scaled / R_scaled if R_scaled != 0 else 0
KRatio(R_s, r_s) == IF R_s # Zero THEN RDiv(r_s, R_s) ELSE Zero

\* l = d_scaled / r_scaled if r_scaled != 0 else 0
LRatio(r_s, d_s) == IF r_s # Zero THEN RDiv(d_s, r_s) ELSE Zero

\* q = min(q, 50)
RotationCap == 50

\* Degrees of one rotation: range(0, 360 * q, angle_step)
FullTurn == 360

\* numerator, denominator, gcd_value and q of generate.
\* Faulty variant: q is taken from the numerator.
RotationsFromNumerator(R_s, r_s) ==
  LET numerator == RoundHalfEven(RSub(R_s, r_s))
      denominator == RoundHalfEven(r_s)
      gcd_value == IF denominator # 0 THEN Gcd(Abs(numerator), Abs(denominator)) ELSE 1
      q0 == IF gcd_value # 0 THEN numerator \div gcd_value ELSE 1
  IN  IF q0 < RotationCap THEN q0 ELSE RotationCap

\* Faulty variant: the radii are not rounded to integers but truncated.
RotationsTruncating(R_s, r_s) ==
  LET numerator == RSub(R_s, r_s)[1] \div RSub(R_s, r_s)[2]
      denominator == r_s[1] \div r_s[2]
      gcd_value == IF denominator # 0 THEN Gcd(Abs(numerator), Abs(denominator)) ELSE 1
      q0 == IF gcd_value # 0 THEN denominator \div gcd_value ELSE 1
  IN  IF q0 < RotationCap THEN q0 ELSE RotationCap

Rotations(R_s, r_s) ==
  LET numerator == RoundHalfEven(RSub(R_s, r_s))
      denominator == RoundHalfEven(r_s)
      gcd_value == IF denominator # 0 THEN Gcd(Abs(numerator), Abs(denominator)) ELSE 1
      q0 == IF gcd_value # 0 THEN denominator \div gcd_value ELSE 1
  IN  IF q0 < RotationCap THEN q0 ELSE RotationCap

\* x mod 360 for a rational number of degrees x.
ModTurn(x) == RSub(x, <<FullTurn * ((x[1] \div x[2]) \div FullTurn), 1>>)

\* The two angle arguments of the equations at theta_deg degrees: theta and
\* ((1 - k) / k) * theta, in degrees.
AngleArguments(k, theta_deg) ==
  <<<<theta_deg, 1>>, RMul(RDiv(RSub(<<1, 1>>, k), k), <<theta_deg, 1>>)>>

\* One pass of the loop body of generate.  The point
\*   x = cx + a * cos(t1) + b * cos(t2),  y = cy + a * sin(t1) - b * sin(t2)
\* with a = R_scaled * (1 - k) / scale_factor, b = R_scaled * l * k / scale_factor
\* is kept as <<cx, cy, a, b, t1 mod 360, t2 mod 360>> (cos and sin have period
\* 360 degrees): equal tuples are equal points.
\* Faulty variant: the center is added before the scale factor is undone.
HypotrochoidPointScaledCenter(center, R_s, k, l, scale_factor, theta_deg) ==
  LET args == AngleArguments(k, theta_deg)
      a == RMul(R_s, RSub(<<1, 1>>, k))
      b == RMul(R_s, RMul(l, k))
  IN  <<IF scale_factor # <<1, 1>> THEN RDiv(center[1], scale_factor) ELSE center[1],
        IF scale_factor # <<1, 1>> THEN RDiv(center[2], scale_factor) ELSE center[2],
        IF scale_factor # <<1, 1>> THEN RDiv(a, scale_factor) ELSE a,
        IF scale_factor # <<1, 1>> THEN RDiv(b, scale_factor) ELSE b,
        ModTurn(args[1]), ModTurn(args[2])>>
HypotrochoidPoint(center, R_s, k, l, scale_factor, theta_deg) ==
  LET args == AngleArguments(k, theta_deg)
      a == RMul(R_s, RSub(<<1, 1>>, k))
      b == RMul(R_s, RMul(l, k))
  IN  <<center[1], center[2],
        IF scale_factor # <<1, 1>> THEN RDiv(a, scale_factor) ELSE a,
        IF scale_factor # <<1, 1>> THEN RDiv(b, scale_factor) ELSE b,
        ModTurn(args[1]), ModTurn(args[2])>>

\* Whether theta_deg is produced by range(0, stop, angle_step), theta_deg being a
\* multiple of angle_step on the side of stop: an upward range ends below stop, a
\* downward one above it.
RangeHas(theta, stop, step) ==
  \/ step > 0 /\ theta < stop
  \/ step < 0 /\ theta > stop
\* len(range(0, stop, angle_step)) for angle_step > 0
RangeLen(stop, angle_step) ==
  IF stop <= 0 THEN 0 ELSE (stop + angle_step - 1) \div angle_step

\* math.dist(p, q) where it is rational.
RAbs(x) == <<Abs(x[1]), x[2]>>
ISqrt(n) == CHOOSE s \in 0..n : s * s = n
Dist(p, q) ==
  LET dx == RSub(q[1], p[1])
      dy == RSub(q[2], p[2])
      h2 == Length2(dx, dy)
  IN  IF dy = Zero THEN RAbs(dx)
      ELSE IF dx = Zero THEN RAbs(dy)
      ELSE <<ISqrt(h2[1]), ISqrt(h2[2])>>

\* generate(angle_step) as a function of the instance's fields, where it returns.
SpiroPoints(center, fixed_radius, rolling_radius, pen_distance, angle_step) ==
  LET scaled == CheckAndScaleParameters(fixed_radius, rolling_radius, pen_distance)
      k == KRatio(scaled[1], scaled[2])
      l == LRatio(scaled[2], scaled[3])
      q == Rotations(scaled[1], scaled[2])
  IN  IF k = Zero \/ l = Zero THEN <<>>
      ELSE [i \in 1..RangeLen(FullTurn * q, angle_step) |->
              HypotrochoidPoint(center, scaled[1], k, l, scaled[4], (i - 1) * angle_step)]

\* -------------------------------------------------------------------- state
VARIABLES
  base_shapes_points,     \* constructor argument (flat coordinate lists)
  pattern_points,         \* constructor argument (flat coordinate list)
  base_shapes_polylines,  \* self.base_shapes_polylines
  is_closed_flags,        \* self.is_closed_flags
  unit_pattern,           \* self.unit_pattern
  pc,                     \* "idle", "generate", "recursion", "done"
  depth,                  \* argument of the running generate call
  idx,                    \* position of generate's for loop (from 1)
  polyline,               \* argument of the running _apply_recursion frame
  d,                      \* depth argument of that frame
  rounds,                 \* substitution rounds run for the current shape
  new_shapes_points,      \* generate's accumulator
  result                  \* value returned by the last finished generate call

VARIABLES
  fixed_center,           \* self.fixed_center
  R,                      \* self.R
  rolling_center,         \* self.rolling_center
  r,                      \* self.r
  self_d,                 \* self.d
  spc,                    \* "idle", "checked", "loop", "done", "raised"
  angle_step,             \* argument of the running SpiroGenerator.generate call
  R_scaled,               \* its locals
  r_scaled,
  d_scaled,
  scale_factor,
  k_ratio,                \* k
  l_ratio,                \* l
  q,
  theta_deg,
  points,
  spiro_result            \* value returned by the last finished call

spiro_fields == <<fixed_center, R, rolling_center, r, self_d>>
spiro == <<spiro_fields, spc, angle_step, R_scaled, r_scaled, d_scaled, scale_factor,
           k_ratio, l_ratio, q, theta_deg, points, spiro_result>>

vars == <<base_shapes_points, pattern_points, base_shapes_polylines, is_closed_flags,
          unit_pattern, pc, depth, idx, polyline, d, rounds, new_shapes_points, result,
          spiro>>

\* generate's locals before any call.
SpiroLocalsUnset ==
  /\ angle_step = 0
  /\ R_scaled = Zero /\ r_scaled = Zero /\ d_scaled = Zero /\ scale_factor = Zero
  /\ k_ratio = Zero /\ l_ratio = Zero
  /\ q = 0
  /\ theta_deg = 0
  /\ points = <<>>
  /\ spiro_result = <<>>

\* No SpiroGenerator has been constructed.
NoSpiroGenerator ==
  /\ fixed_center = <<>> /\ R = Zero /\ rolling_center = <<>> /\ r = Zero /\ self_d = Zero
  /\ spc = "none"
  /\ SpiroLocalsUnset

CoordR == {<<c, 1>> : c \in 0..MaxCoord}
FlatLists(maxPts) == UNION {[1..(2 * k) -> CoordR] : k \in 0..maxPts}
Depths == (-MaxNegDepth)..MaxDepth

\* zip(self.base_shapes_polylines, self.is_closed_flags) stops at the shorter list.
ZipLen ==
  IF Len(base_shapes_polylines) < Len(is_closed_flags)
  THEN Len(base_shapes_polylines) ELSE Len(is_closed_flags)

\* __init__ on the given arguments, and generate's locals before any call.
Construct(shapes, pattern, flags) ==
  /\ base_shapes_points = shapes
  /\ pattern_points = pattern
  /\ base_shapes_polylines = [k \in 1..Len(shapes) |-> PointsToPolyline(shapes[k])]
  /\ is_closed_flags = flags
  /\ unit_pattern = NormalizePattern(PointsToPolyline(pattern))
  /\ pc = "idle"
  /\ depth = 0
  /\ idx = 1
  /\ polyline = <<>>
  /\ d = 0
  /\ rounds = 0
  /\ new_shapes_points = <<>>
  /\ result = <<>>

\* One base shape, any pattern.
Init ==
  \E s \in FlatLists(MaxShapePts), p \in FlatLists(MaxPatternPts), f \in BOOLEAN :
    Construct(<<s>>, p, <<f>>) /\ NoSpiroGenerator

\* Flat lists of points on the x axis, and flat lists that start at the origin.
OnAxis(maxPts) == {s \in FlatLists(maxPts) : \A j \in 1..Len(s) : j % 2 = 0 => s[j] = Zero}
FromOrigin(maxPts) == {s \in FlatLists(maxPts) : Len(s) > 0 => s[1] = Zero /\ s[2] = Zero}

\* Several small base shapes on the x axis, a pattern that starts at the origin.
InitShapes ==
  \E n \in 0..MaxShapes :
    \E ss \in [1..n -> OnAxis(MaxSmallPts)], fs \in [1..n -> BOOLEAN],
       p \in FromOrigin(MaxSmallPatternPts) :
      Construct(ss, p, fs) /\ NoSpiroGenerator

\* Base shapes and closed flags of different lengths: the constructor stores both
\* lists as given and never compares their lengths.
InitFlags ==
  \E n \in 0..MaxShapes, m \in 0..MaxFlags :
    /\ n # m
    /\ \E ss \in [1..n -> OnAxis(MaxSmallPts)], fs \in [1..m -> BOOLEAN],
          p \in FromOrigin(MaxSmallPts) :
         Construct(ss, p, fs) /\ NoSpiroGenerator

\* The neighbourhood of the specification's worked example: base shapes of up to
\* 2 points with coordinates 0 or 10, patterns (0,0), (mx,my), (1,0) with mx, my
\* in {0, 1/2, 1}.
ExampleBaseCoords == {Zero, <<10, 1>>}
ExamplePatternCoords == {Zero, <<1, 2>>, <<1, 1>>}
ExampleShapes == UNION {[1..(2 * k) -> ExampleBaseCoords] : k \in 0..MaxSmallPts}
ExamplePatterns ==
  {<<Zero, Zero, mx, my, <<1, 1>>, Zero>> : mx \in ExamplePatternCoords, my \in ExamplePatternCoords}
InitExample ==
  \E s \in ExampleShapes, p \in ExamplePatterns, f \in BOOLEAN :
    Construct(<<s>>, p, <<f>>) /\ NoSpiroGenerator

fields == <<base_shapes_points, pattern_points, base_shapes_polylines,
            is_closed_flags, unit_pattern>>

\* generate(depth): new_shapes_points = []
Generate ==
  /\ pc \in {"idle", "done"}
  /\ \E dep \in Depths : depth' = dep
  /\ pc' = "generate"
  /\ idx' = 1
  /\ new_shapes_points' = <<>>
  /\ result' = <<>>
  /\ polyline' = <<>>
  /\ d' = 0
  /\ rounds' = 0
  /\ UNCHANGED <<fields, spiro, spiro>>

\* if len(polyline) < 2: continue
\* Faulty variant: an empty list is appended for the skipped shape.
SkipShapePlaceholder ==
  /\ pc = "generate"
  /\ idx <= ZipLen
  /\ Len(base_shapes_polylines[idx]) < 2
  /\ idx' = idx + 1
  /\ new_shapes_points' = Append(new_shapes_points, <<>>)
  /\ UNCHANGED <<fields, spiro, pc, depth, polyline, d, rounds, result>>

SkipShape ==
  /\ pc = "generate"
  /\ idx <= ZipLen
  /\ Len(base_shapes_polylines[idx]) < 2
  /\ idx' = idx + 1
  /\ UNCHANGED <<fields, spiro, pc, depth, polyline, d, rounds, new_shapes_points, result>>

\* self._apply_recursion(polyline, depth, is_closed_flag)
CallRecursion ==
  /\ pc = "generate"
  /\ idx <= ZipLen
  /\ Len(base_shapes_polylines[idx]) >= 2
  /\ pc' = "recursion"
  /\ polyline' = base_shapes_polylines[idx]
  /\ d' = depth
  /\ rounds' = 0
  /\ UNCHANGED <<fields, spiro, depth, idx, new_shapes_points, result>>

\* The interpreter's ceiling on nested calls, and the frames in use inside the
\* level of _apply_recursion entered after n rounds: the caller's frame, the frame
\* of generate, and n + 1 frames of _apply_recursion. A level with depth > 0 needs
\* one more frame, for _apply_pattern_to_segment and for the recursive call.
RecursionLimit == 1000
Frames(n) == n + 3
StackRoom(n) == Frames(n) + 1 < RecursionLimit

\* One level of _apply_recursion with depth > 0, up to its recursive call.
\* Faulty variant: only the first round wraps around.
RoundOpenAfterFirst ==
  /\ pc = "recursion"
  /\ ~BaseCase(d)
  /\ StackRoom(rounds)
  /\ polyline' = SubstitutionRound(polyline, is_closed_flags[idx] /\ rounds = 0,
                                   unit_pattern)
  /\ d' = d - 1
  /\ rounds' = rounds + 1
  /\ UNCHANGED <<fields, spiro, pc, depth, idx, new_shapes_points, result>>

\* Faulty variant: the flag is taken at the position of the next output entry.
RoundFlagByOutput ==
  /\ pc = "recursion"
  /\ ~BaseCase(d)
  /\ StackRoom(rounds)
  /\ polyline' = SubstitutionRound(polyline, is_closed_flags[Len(new_shapes_points) + 1],
                                   unit_pattern)
  /\ d' = d - 1
  /\ rounds' = rounds + 1
  /\ UNCHANGED <<fields, spiro, pc, depth, idx, new_shapes_points, result>>

Round ==
  /\ pc = "recursion"
  /\ ~BaseCase(d)
  /\ StackRoom(rounds)
  /\ polyline' = SubstitutionRound(polyline, is_closed_flags[idx], unit_pattern)
  /\ d' = d - 1
  /\ rounds' = rounds + 1
  /\ UNCHANGED <<fields, spiro, pc, depth, idx, new_shapes_points, result>>

\* depth <= 0: every frame returns polyline; generate appends its flat form.
ReturnRecursion ==
  /\ pc = "recursion"
  /\ BaseCase(d)
  /\ new_shapes_points' = Append(new_shapes_points, PolylineToPoints(polyline))
  /\ idx' = idx + 1
  /\ pc' = "generate"
  /\ UNCHANGED <<fields, spiro, depth, polyline, d, rounds, result>>

\* return new_shapes_points
ReturnWithUnpaired ==
  /\ pc = "generate"
  /\ idx > ZipLen
  /\ result' = new_shapes_points
                 \o SubSeq(base_shapes_points, ZipLen + 1, Len(base_shapes_points))
  /\ pc' = "done"
  /\ UNCHANGED <<fields, spiro, depth, idx, polyline, d, rounds, new_shapes_points>>

Return ==
  /\ pc = "generate"
  /\ idx > ZipLen
  /\ result' = new_shapes_points
  /\ pc' = "done"
  /\ UNCHANGED <<fields, spiro, depth, idx, polyline, d, rounds, new_shapes_points>>

Next ==
  \/ Generate
  \/ SkipShape
  \/ CallRecursion
  \/ Round
  \/ ReturnRecursion
  \/ Return

\* generate(depth) with a depth beyond the interpreter's ceiling on nested calls.
DeepDepths == {RecursionLimit}
GenerateDeep ==
  /\ pc \in {"idle", "done", "raised"}
  /\ \E dep \in DeepDepths : depth' = dep
  /\ pc' = "generate"
  /\ idx' = 1
  /\ new_shapes_points' = <<>>
  /\ result' = <<>>
  /\ polyline' = <<>>
  /\ d' = 0
  /\ rounds' = 0
  /\ UNCHANGED <<fields, spiro, spiro>>

\* A level with depth > 0 and no frame left: RecursionError leaves generate, and
\* nothing is returned for any shape of the batch.
RecursionOverflow ==
  /\ pc = "recursion"
  /\ ~BaseCase(d)
  /\ ~StackRoom(rounds)
  /\ pc' = "raised"
  /\ UNCHANGED <<fields, spiro, depth, idx, polyline, d, rounds, new_shapes_points, result>>

NextDeep ==
  \/ Next
  \/ GenerateDeep
  \/ RecursionOverflow

\* One-point and two-point open base shapes, patterns of at most 2 points on the
\* x axis: a substitution round never lengthens such a polyline.
DeepShapes == {<<Zero, Zero>>, <<Zero, Zero, <<1, 1>>, Zero>>}
DeepPatterns == OnAxis(MaxSmallPts) \cap FromOrigin(MaxSmallPts)
InitDeep ==
  \E n \in 0..MaxShapes :
    \E ss \in [1..n -> DeepShapes], fs \in [1..n -> {FALSE}], p \in DeepPatterns :
      Construct(ss, p, fs) /\ NoSpiroGenerator

Spec == Init /\ [][Next]_vars
SpecDeep == InitDeep /\ [][NextDeep]_vars

\* A started call runs on: the interpreter executes generate on one thread with
\* no blocking operation, so every enabled step of the call is eventually
\* taken; whether a new call is made is up to the caller.  The fairness of
\* Round and ReturnRecursion is stated on their control parts (same guards,
\* the change of rounds resp. pc): within [NextDeep]_vars a step that raises
\* rounds in the recursion is a Round step and a step from "recursion" to
\* "generate" is a ReturnRecursion step.
RoundControl ==
  /\ pc = "recursion"
  /\ ~BaseCase(d)
  /\ StackRoom(rounds)
  /\ rounds' = rounds + 1
ReturnRecursionControl ==
  /\ pc = "recursion"
  /\ BaseCase(d)
  /\ pc' = "generate"
CallRunsOn ==
  /\ WF_vars(SkipShape \/ CallRecursion \/ Return \/ RecursionOverflow)
  /\ WF_rounds(RoundControl)
  /\ WF_pc(ReturnRecursionControl)
SpecDeepFair == InitDeep /\ [][NextDeep]_vars /\ CallRunsOn
SpecShapesFair == InitShapes /\ [][Next]_vars /\ CallRunsOn
SpecShapes == InitShapes /\ [][Next]_vars
SpecFlags == InitFlags /\ [][Next]_vars
SpecExample == InitExample /\ [][Next]_vars

\* ------------------------------------------------ SpiroGenerator: the calls
\* No FractalGenerator has been constructed.
NoFractalGenerator ==
  /\ base_shapes_points = <<>>
  /\ pattern_points = <<>>
  /\ base_shapes_polylines = <<>>
  /\ is_closed_flags = <<>>
  /\ unit_pattern = <<>>
  /\ pc = "none"
  /\ depth = 0
  /\ idx = 1
  /\ polyline = <<>>
  /\ d = 0
  /\ rounds = 0
  /\ new_shapes_points = <<>>
  /\ result = <<>>

fractal == <<fields, pc, depth, idx, polyline, d, rounds, new_shapes_points, result>>

\* SpiroGenerator.__init__ on the given arguments.
SpiroConstruct(center, fixed_radius, rolling, rolling_radius, pen_position) ==
  /\ fixed_center = center
  /\ R = fixed_radius
  /\ rolling_center = rolling
  /\ r = rolling_radius
  /\ self_d = Dist(rolling, pen_position)
  /\ spc = "idle"
  /\ SpiroLocalsUnset

\* Constructor arguments: radii that are negative, zero, below 1, integers, a
\* half-integer, and one positive float too small for the scale guard.
SpiroCenters == {<<Zero, Zero>>, <<<<1, 1>>, <<-1, 1>>>>}
FixedRadii == {<<-5, 1>>, Zero, <<1, 2000>>, <<5, 1>>, <<15, 1>>, <<52, 1>>, <<1, 1, -308>>}
RollingRadii ==
  {<<-3, 1>>, Zero, <<3, 10000>>, <<3, 1>>, <<7, 2>>, <<10, 1>>, <<51, 1>>, <<1, 1, -308>>}
RollingCenters == {<<Zero, Zero>>}
PenPositions ==
  {<<Zero, Zero>>, <<<<1, 5000>>, Zero>>, <<Zero, <<1, 2>>>>, <<<<2, 1>>, Zero>>,
   <<<<3, 1>>, <<4, 1>>>>, <<Zero, <<-10, 1>>>>}
AngleSteps == {100, 360}

InitSpiro ==
  \E center \in SpiroCenters, fixed_radius \in FixedRadii, rolling \in RollingCenters,
     rolling_radius \in RollingRadii, pen_position \in PenPositions :
    /\ SpiroConstruct(center, fixed_radius, rolling, rolling_radius, pen_position)
    /\ NoFractalGenerator

\* generate(angle_step) through _check_and_scale_parameters and the two ratios.
\* Faulty variant: the scale guard writes the scaled values back to the instance.
SpiroGenerateInPlace ==
  /\ spc \in {"idle", "done", "raised"}
  /\ ~ScaleOverflows(R, r, self_d)
  /\ \E step \in AngleSteps : angle_step' = step
  /\ LET scaled == CheckAndScaleParameters(R, r, self_d)
     IN  /\ R_scaled' = scaled[1]
         /\ r_scaled' = scaled[2]
         /\ d_scaled' = scaled[3]
         /\ scale_factor' = scaled[4]
         /\ k_ratio' = KRatio(scaled[1], scaled[2])
         /\ l_ratio' = LRatio(scaled[2], scaled[3])
         /\ R' = scaled[1]
         /\ r' = scaled[2]
         /\ self_d' = scaled[3]
  /\ q' = 0
  /\ theta_deg' = 0
  /\ points' = <<>>
  /\ spiro_result' = <<>>
  /\ spc' = "checked"
  /\ UNCHANGED <<fractal, fixed_center, rolling_center>>

SpiroGenerate ==
  /\ spc \in {"idle", "done", "raised"}
  /\ ~ScaleOverflows(R, r, self_d)
  /\ \E step \in AngleSteps : angle_step' = step
  /\ LET scaled == CheckAndScaleParameters(R, r, self_d)
     IN  /\ R_scaled' = scaled[1]
         /\ r_scaled' = scaled[2]
         /\ d_scaled' = scaled[3]
         /\ scale_factor' = scaled[4]
         /\ k_ratio' = KRatio(scaled[1], scaled[2])
         /\ l_ratio' = LRatio(scaled[2], scaled[3])
  /\ q' = 0
  /\ theta_deg' = 0
  /\ points' = <<>>
  /\ spiro_result' = <<>>
  /\ spc' = "checked"
  /\ UNCHANGED <<fractal, spiro_fields>>

\* generate(angle_step) where self.R * scale_factor (or the next product) raises
\* OverflowError: the int 10 ** n has no float.
SpiroOverflow ==
  /\ spc \in {"idle", "done", "raised"}
  /\ ScaleOverflows(R, r, self_d)
  /\ \E step \in AngleSteps : angle_step' = step
  /\ R_scaled' = Zero /\ r_scaled' = Zero /\ d_scaled' = Zero /\ scale_factor' = Zero
  /\ k_ratio' = Zero /\ l_ratio' = Zero
  /\ q' = 0
  /\ theta_deg' = 0
  /\ points' = <<>>
  /\ spiro_result' = <<>>
  /\ spc' = "raised"
  /\ UNCHANGED <<fractal, spiro_fields>>

\* if k == 0 or l == 0: return []
SpiroReturnEmpty ==
  /\ spc = "checked"
  /\ k_ratio = Zero \/ l_ratio = Zero
  /\ spiro_result' = <<>>
  /\ spc' = "done"
  /\ UNCHANGED <<fractal, spiro_fields, angle_step, R_scaled, r_scaled, d_scaled,
                 scale_factor, k_ratio, l_ratio, q, theta_deg, points>>

\* numerator .. q = min(q, 50); points = []; the loop starts at theta_deg = 0.
SpiroRotations ==
  /\ spc = "checked"
  /\ ~(k_ratio = Zero \/ l_ratio = Zero)
  /\ q' = Rotations(R_scaled, r_scaled)
  /\ points' = <<>>
  /\ theta_deg' = 0
  /\ spc' = "loop"
  /\ UNCHANGED <<fractal, spiro_fields, angle_step, R_scaled, r_scaled, d_scaled,
                 scale_factor, k_ratio, l_ratio, spiro_result>>

\* One pass of for theta_deg in range(0, 360 * q, angle_step).
\* Faulty variant: the range includes its stop value.
SpiroSampleInclusive ==
  /\ spc = "loop"
  /\ theta_deg <= FullTurn * q
  /\ points' = Append(points, HypotrochoidPoint(fixed_center, R_scaled, k_ratio, l_ratio,
                                                scale_factor, theta_deg))
  /\ theta_deg' = theta_deg + angle_step
  /\ UNCHANGED <<fractal, spiro_fields, spc, angle_step, R_scaled, r_scaled, d_scaled,
                 scale_factor, k_ratio, l_ratio, q, spiro_result>>

SpiroSample ==
  /\ spc = "loop"
  /\ RangeHas(theta_deg, FullTurn * q, angle_step)
  /\ points' = Append(points, HypotrochoidPoint(fixed_center, R_scaled, k_ratio, l_ratio,
                                                scale_factor, theta_deg))
  /\ theta_deg' = theta_deg + angle_step
  /\ UNCHANGED <<fractal, spiro_fields, spc, angle_step, R_scaled, r_scaled, d_scaled,
                 scale_factor, k_ratio, l_ratio, q, spiro_result>>

\* return points
SpiroReturn ==
  /\ spc = "loop"
  /\ angle_step # 0
  /\ ~RangeHas(theta_deg, FullTurn * q, angle_step)
  /\ spiro_result' = points
  /\ spc' = "done"
  /\ UNCHANGED <<fractal, spiro_fields, angle_step, R_scaled, r_scaled, d_scaled,
                 scale_factor, k_ratio, l_ratio, q, theta_deg, points>>

NextSpiro ==
  \/ SpiroGenerate
  \/ SpiroOverflow
  \/ SpiroReturnEmpty
  \/ SpiroRotations
  \/ SpiroSample
  \/ SpiroReturn

SpecSpiro == InitSpiro /\ [][NextSpiro]_vars

\* Instances whose rolling circle is placed at different centers: pairs of a
\* rolling center and a pen position, two of them with the same pen distance 2,
\* two with 1/2, one with 0.
CenterFixedRadii == {<<-5, 1>>, <<5, 1>>, <<1, 1, -308>>}
CenterRollingRadii == {Zero, <<3, 1>>, <<7, 2>>}
CenterPens ==
  {<<<<Zero, Zero>>, <<<<2, 1>>, Zero>>>>,
   <<<<<<1, 1>>, <<1, 1>>>>, <<<<3, 1>>, <<1, 1>>>>>>,
   <<<<Zero, Zero>>, <<Zero, <<1, 2>>>>>>,
   <<<<<<1, 1>>, <<1, 1>>>>, <<<<1, 1>>, <<1, 2>>>>>>,
   <<<<<<-1, 1>>, Zero>>, <<<<-1, 1>>, Zero>>>>}
InitCenters ==
  \E center \in SpiroCenters, fixed_radius \in CenterFixedRadii,
     rolling_radius \in CenterRollingRadii, cp \in CenterPens :
    /\ SpiroConstruct(center, fixed_radius, cp[1], rolling_radius, cp[2])
    /\ NoFractalGenerator
SpecCenters == InitCenters /\ [][NextSpiro]_vars

\* generate(angle_step) with any integer angle_step: a downward step, 0, and the
\* upward steps; the radii of InitSpiro that are zero or positive and that the
\* scale guard can handle.
SignedSteps == {-100, 0} \cup AngleSteps
StepRadii(S) == {x \in S : ~IsTiny(x) /\ x[1] >= 0}
InitSteps ==
  \E center \in SpiroCenters, fixed_radius \in StepRadii(FixedRadii),
     rolling \in RollingCenters, rolling_radius \in StepRadii(RollingRadii),
     pen_position \in PenPositions :
    /\ SpiroConstruct(center, fixed_radius, rolling, rolling_radius, pen_position)
    /\ NoFractalGenerator
SpiroGenerateSigned ==
  /\ spc \in {"idle", "done", "raised"}
  /\ ~ScaleOverflows(R, r, self_d)
  /\ \E step \in SignedSteps : angle_step' = step
  /\ LET scaled == CheckAndScaleParameters(R, r, self_d)
     IN  /\ R_scaled' = scaled[1]
         /\ r_scaled' = scaled[2]
         /\ d_scaled' = scaled[3]
         /\ scale_factor' = scaled[4]
         /\ k_ratio' = KRatio(scaled[1], scaled[2])
         /\ l_ratio' = LRatio(scaled[2], scaled[3])
  /\ q' = 0
  /\ theta_deg' = 0
  /\ points' = <<>>
  /\ spiro_result' = <<>>
  /\ spc' = "checked"
  /\ UNCHANGED <<fractal, spiro_fields>>
\* range(0, 360 * q, 0) raises ValueError: generate ends without a result.
SpiroStepZero ==
  /\ spc = "loop"
  /\ angle_step = 0
  /\ spc' = "raised"
  /\ UNCHANGED <<fractal, spiro_fields, angle_step, R_scaled, r_scaled, d_scaled,
                 scale_factor, k_ratio, l_ratio, q, theta_deg, points, spiro_result>>
NextSteps ==
  \/ SpiroGenerateSigned
  \/ SpiroReturnEmpty
  \/ SpiroRotations
  \/ SpiroSample
  \/ SpiroReturn
  \/ SpiroStepZero
SpecSteps == InitSteps /\ [][NextSteps]_vars

\* ------------------------------------------- both generators, calls interleaved
\* One FractalGenerator and one SpiroGenerator: a one-point or two-point base shape,
\* a pattern of at most 2 points; R = 5 or a float too small for the scale guard,
\* r = 3 or 0, d = 0.5 (scaled by the guard) or 2.
BothFixedRadii == {<<5, 1>>, <<1, 1, -308>>}
BothRollingRadii == {<<3, 1>>, Zero}
BothPenPositions == {<<<<1, 2>>, Zero>>, <<<<2, 1>>, Zero>>}
InitBoth ==
  \E s \in DeepShapes, f \in BOOLEAN, p \in DeepPatterns,
     fixed_radius \in BothFixedRadii, rolling_radius \in BothRollingRadii,
     pen_position \in BothPenPositions :
    /\ Construct(<<s>>, p, <<f>>)
    /\ SpiroConstruct(<<Zero, Zero>>, fixed_radius, <<Zero, Zero>>, rolling_radius,
                      pen_position)

NextBoth ==
  \/ Next
  \/ NextSpiro

SpecBoth == InitBoth /\ [][NextBoth]_vars

\* ------------------------------------------------------ vocabulary of claims
RawPattern == PointsToPolyline(pattern_points)
PatternNonDegenerate ==
  Len(RawPattern) >= 2 /\ RawPattern[1] # RawPattern[Len(RawPattern)]
ConsecutiveDistinct(pl) == \A k \in 1..(Len(pl) - 1) : pl[k] # pl[k + 1]
NoZeroSegment(pl, closed) ==
  ConsecutiveDistinct(pl) /\ (closed => pl[Len(pl)] # pl[1])
PSub(a, b) == <<RSub(a[1], b[1]), RSub(a[2], b[2])>>
\* Points as complex numbers: a * b.
CMul(a, b) ==
  <<RSub(RMul(a[1], b[1]), RMul(a[2], b[2])), RAdd(RMul(a[1], b[2]), RMul(a[2], b[1]))>>
RECURSIVE Pow(_, _)
Pow(b, e) == IF e <= 0 THEN 1 ELSE b * Pow(b, e - 1)
Max(a, b) == IF a >= b THEN a ELSE b
PointSet(pl) == {pl[k] : k \in 1..Len(pl)}
HasTwoPoints(flat) == Len(flat) >= 4
IsKept(k) == Len(base_shapes_polylines[k]) >= 2
\* The positions of the base shapes with at least 2 points, in increasing order.
Kept == SelectSeq([k \in 1..Len(base_shapes_polylines) |-> k], IsKept)
\* A substitution round is about to run on polyline.
InRound == pc = "recursion" /\ d > 0
RoundSegments == Segments(polyline, is_closed_flags[idx])

\* -------------------------------------------------------------------- claims
\* C1 (continuity): with a raw pattern of at least 2 points whose first and last
\* points differ, every segment (A, B), A # B, of every round is replaced by one
\* point per pattern point, the first equal to A and the last equal to B, and the
\* j-th being the image of the j-th raw pattern point under the similarity that
\* takes the pattern's start to A and its end to B (pattern order).
C1_Continuity ==
  (InRound /\ PatternNonDegenerate) =>
    \A k \in 1..Len(RoundSegments) :
      LET A == RoundSegments[k][1]
          B == RoundSegments[k][2]
          t == ApplyPatternToSegment(RoundSegments[k], unit_pattern)
          m == Len(RawPattern)
      IN  A # B =>
            /\ Len(t) = m
            /\ t[1] = A
            /\ t[m] = B
            /\ \A j \in 1..m :
                 CMul(PSub(t[j], A), PSub(RawPattern[m], RawPattern[1]))
                   = CMul(PSub(RawPattern[j], RawPattern[1]), PSub(B, A))

\* C1 witness: a second round over a slanted segment with a 3-point pattern whose
\* middle point lies off the line from its start to its end.
C1_Witness ==
  /\ InRound /\ rounds >= 1 /\ PatternNonDegenerate
  /\ Len(RawPattern) = 3 /\ unit_pattern[2][2] # Zero
  /\ \E k \in 1..Len(RoundSegments) :
       /\ RoundSegments[k][1][1] # RoundSegments[k][2][1]
       /\ RoundSegments[k][1][2] # RoundSegments[k][2][2]

C3_ClosedPointCount_Original ==
  LET pl == base_shapes_polylines[1]
      n == Len(pl)
      m == Len(RawPattern)
  IN  ( /\ pc = "done" /\ depth = 1
        /\ Len(base_shapes_polylines) = 1 /\ is_closed_flags[1]
        /\ n >= 2 /\ NoZeroSegment(pl, TRUE) /\ PatternNonDegenerate )
      => /\ Len(result) = 1
         /\ Len(result[1]) = 2 * (n * (m - 1))

\* C3 as amended: under the same conditions generate(1) returns exactly
\* n * (m - 1) + 1 points: segment 0 gives m points and each of the other n - 1
\* segments, the wraparound one included, m - 1.
C3_ClosedPointCount ==
  LET pl == base_shapes_polylines[1]
      n == Len(pl)
      m == Len(RawPattern)
  IN  ( /\ pc = "done" /\ depth = 1
        /\ Len(base_shapes_polylines) = 1 /\ is_closed_flags[1]
        /\ n >= 2 /\ NoZeroSegment(pl, TRUE) /\ PatternNonDegenerate )
      => /\ Len(result) = 1
         /\ Len(result[1]) = 2 * (n * (m - 1) + 1)

\* C3 witness: a closed triangle under a 3-point pattern: 3 * 2 + 1 = 7 points.
C3_Witness ==
  /\ pc = "done" /\ depth = 1 /\ is_closed_flags[1]
  /\ Len(base_shapes_polylines[1]) = 3 /\ NoZeroSegment(base_shapes_polylines[1], TRUE)
  /\ Len(RawPattern) = 3 /\ PatternNonDegenerate
  /\ Len(result[1]) = 14

\* C4 (depth-0 identity): generate(0) returns, for every base shape with at least 2
\* points, exactly the coordinates it was constructed from, in the same order,
\* whatever the closed flag and the pattern.
C4_DepthZeroIdentity ==
  (pc = "done" /\ depth = 0) => result = SelectSeq(base_shapes_points, HasTwoPoints)

\* C4 witness: generate(0) has returned a closed 3-point shape under a pattern
\* that a round would apply.
C4_Witness ==
  /\ pc = "done" /\ depth = 0 /\ is_closed_flags[1]
  /\ Len(base_shapes_polylines[1]) = 3 /\ NoZeroSegment(base_shapes_polylines[1], TRUE)
  /\ Len(RawPattern) = 3 /\ PatternNonDegenerate /\ unit_pattern[2][2] # Zero
  /\ result = <<base_shapes_points[1]>>

\* C5 as stated (degenerate pattern fallback): when the raw pattern has fewer than 2
\* points or its first and last points coincide, every substitution of a segment
\* (A, B) during generate(depth >= 1) is exactly [A, B], and the output polyline has
\* the same vertices as the input polyline.
C5_DegeneratePatternFallback ==
  (~PatternNonDegenerate /\ depth >= 1) =>
    /\ InRound =>
         \A k \in 1..Len(RoundSegments) :
           ApplyPatternToSegment(RoundSegments[k], unit_pattern)
             = <<RoundSegments[k][1], RoundSegments[k][2]>>
    /\ pc = "done" =>
         \A j \in 1..Len(result) :
           PointSet(PointsToPolyline(result[j])) = PointSet(base_shapes_polylines[Kept[j]])

\* C6 (degenerate base shape is skipped): a base shape with fewer than 2 points
\* contributes no entry to the result: generate returns as many point lists as
\* there are base shapes with at least 2 points, and they are the lists generate
\* returns when only those shapes (with their flags) are supplied.
KeptPolylines == [j \in 1..Len(Kept) |-> base_shapes_polylines[Kept[j]]]
KeptFlags == [j \in 1..Len(Kept) |-> is_closed_flags[Kept[j]]]
C6_DegenerateShapeSkipped ==
  pc = "done" =>
    /\ Len(result) = Len(Kept)
    /\ result = GenerateResult(KeptPolylines, KeptFlags, depth, unit_pattern)

\* C6 witness: a one-point shape before a two-point shape, one list returned.
C6_Witness ==
  /\ pc = "done" /\ depth >= 1
  /\ Len(base_shapes_polylines) = 2
  /\ Len(base_shapes_polylines[1]) = 1
  /\ Len(base_shapes_polylines[2]) = 2 /\ ConsecutiveDistinct(base_shapes_polylines[2])
  /\ Len(RawPattern) = 3 /\ PatternNonDegenerate
  /\ Len(result) = 1 /\ result[1] # <<>>

\* C7 (segments of a round): a round splits a closed polyline of n points into the
\* n segments (p_i, p_((i+1) mod n)), i = 0..n-1, the last being (p_(n-1), p_0), and
\* an open polyline into the n - 1 segments (p_i, p_(i+1)), in path order.
C7_RoundSegments ==
  InRound =>
    LET n == Len(polyline)
    IN  IF is_closed_flags[idx]
        THEN /\ Len(RoundSegments) = n
             /\ \A k \in 1..(n - 1) : RoundSegments[k] = <<polyline[k], polyline[k + 1]>>
             /\ n >= 1 => RoundSegments[n] = <<polyline[n], polyline[1]>>
        ELSE /\ Len(RoundSegments) = Max(n - 1, 0)
             /\ \A k \in 1..(n - 1) : RoundSegments[k] = <<polyline[k], polyline[k + 1]>>

\* C7 witness: the first round of a closed triangle: 3 segments, the last one the
\* wraparound segment back to the first point.
C7_Witness ==
  /\ InRound /\ rounds = 0 /\ is_closed_flags[idx]
  /\ Len(polyline) = 3 /\ NoZeroSegment(polyline, TRUE)
  /\ Len(RoundSegments) = 3
  /\ RoundSegments[3] = <<polyline[3], polyline[1]>>

\* C8 (zero-length segment): a segment with A = B is replaced by exactly [A, B],
\* and a base shape of 2 identical points comes back, for every depth >= 0 and
\* either flag, as a non-empty list of points all equal to that point.
C8_ZeroLengthSegment ==
  /\ InRound =>
       \A k \in 1..Len(RoundSegments) :
         RoundSegments[k][1] = RoundSegments[k][2] =>
           ApplyPatternToSegment(RoundSegments[k], unit_pattern)
             = <<RoundSegments[k][1], RoundSegments[k][2]>>
  /\ ( /\ pc = "done" /\ depth >= 0
       /\ Len(base_shapes_polylines) = 1
       /\ Len(base_shapes_polylines[1]) = 2
       /\ base_shapes_polylines[1][1] = base_shapes_polylines[1][2] )
     => /\ Len(result) = 1
        /\ PointSet(PointsToPolyline(result[1])) = {base_shapes_polylines[1][1]}

\* C8 witness: two identical points, closed, depth 2, under a 3-point pattern with
\* a bump: 4 points came back.
C8_Witness ==
  /\ pc = "done" /\ depth = 2 /\ is_closed_flags[1]
  /\ Len(base_shapes_polylines[1]) = 2
  /\ base_shapes_polylines[1][1] = base_shapes_polylines[1][2]
  /\ Len(RawPattern) = 3 /\ PatternNonDegenerate /\ unit_pattern[2][2] # Zero
  /\ Len(result[1]) = 8

\* C9 (output order and flag pairing): the j-th returned list is the result for the
\* j-th base shape that has at least 2 points, computed with the closed flag
\* supplied at that shape's own position, also when earlier shapes were skipped.
C9_OrderAndFlagPairing ==
  pc = "done" =>
    /\ Len(result) = Len(Kept)
    /\ \A j \in 1..Len(result) :
         result[j] = PolylineToPoints(
                       ApplyRecursion(base_shapes_polylines[Kept[j]], depth,
                                      is_closed_flags[Kept[j]], unit_pattern))

\* C9 witness: the first shape is skipped, the second is closed while the first
\* flag says open, and the closed result differs from the open one.
C9_Witness ==
  /\ pc = "done" /\ depth = 1
  /\ Len(base_shapes_polylines) = 2
  /\ Len(base_shapes_polylines[1]) < 2
  /\ Len(base_shapes_polylines[2]) = 2 /\ ConsecutiveDistinct(base_shapes_polylines[2])
  /\ is_closed_flags = <<FALSE, TRUE>>
  /\ Len(result) = 1
  /\ result[1] # PolylineToPoints(
                   ApplyRecursion(base_shapes_polylines[2], 1, FALSE, unit_pattern))

\* C10 (negative depth is identity): generate(depth) with depth < 0 runs no
\* substitution round and returns what generate(0) returns: every base shape with
\* at least 2 points, unchanged.
C10_NegativeDepthIdentity ==
  depth < 0 =>
    /\ rounds = 0
    /\ pc = "done" => result = SelectSeq(base_shapes_points, HasTwoPoints)

\* C10 witness: generate(-1) has returned a 3-point shape under an applicable pattern.
C10_Witness ==
  /\ pc = "done" /\ depth < 0
  /\ Len(base_shapes_polylines[1]) = 3 /\ NoZeroSegment(base_shapes_polylines[1], TRUE)
  /\ Len(RawPattern) = 3 /\ PatternNonDegenerate /\ unit_pattern[2][2] # Zero
  /\ result = <<base_shapes_points[1]>>

\* C11 (end-to-end example): raw pattern [(0,0), (0.5,0.5), (1,0)] on the one open
\* base shape [(0,0), (10,0)]: generate(1) returns exactly one point list, with the
\* 3 points (0,0), (5,5), (10,0) in that order.
C11_EndToEndExample ==
  ( /\ pc = "done" /\ depth = 1
    /\ pattern_points = <<Zero, Zero, <<1, 2>>, <<1, 2>>, <<1, 1>>, Zero>>
    /\ base_shapes_points = << <<Zero, Zero, <<10, 1>>, Zero>> >>
    /\ is_closed_flags = <<FALSE>> )
  => result = << <<Zero, Zero, <<5, 1>>, <<5, 1>>, <<10, 1>>, Zero>> >>

\* C11 witness: generate(1) has returned on exactly that input.
C11_Witness ==
  /\ pc = "done" /\ depth = 1
  /\ pattern_points = <<Zero, Zero, <<1, 2>>, <<1, 2>>, <<1, 1>>, Zero>>
  /\ base_shapes_points = << <<Zero, Zero, <<10, 1>>, Zero>> >>
  /\ is_closed_flags = <<FALSE>>
  /\ Len(result) = 1 /\ Len(result[1]) = 6

\* C12 (no failure on degenerate fractal input): for every list of even-length
\* base shapes, every even-length pattern, a flag list of equal length and every
\* integer depth, construction and generate complete without raising.
C12_NoFailure == pc # "raised"

\* ---------------------------------------------- claims on the curve sampler
\* C13 (empty result on degenerate ratios): SpiroGenerator.generate returns the
\* empty list whenever R = 0, or r = 0, or d = 0, for every angle step > 0: no call
\* on such an instance raises or enters the sampling loop, and every finished call
\* has returned [].
C13_EmptyOnDegenerateRatios ==
  (R = Zero \/ r = Zero \/ self_d = Zero)
  => /\ spc \notin {"raised", "loop"}
     /\ spc = "done" => spiro_result = <<>>

\* A call of SpiroGenerator.generate that has computed its rotation count.
SpiroSampling == spc \in {"loop", "done"} /\ ~(k_ratio = Zero \/ l_ratio = Zero)
AllPositive == Positive(R) /\ Positive(r) /\ Positive(self_d)
Min(a, b) == IF a < b THEN a ELSE b

\* C14 (rotation count): for positive R, r, d the number of rotations used by
\* generate is q = min(round(r') / gcd(round(R' - r'), round(r')), 50), R' and r'
\* the radii after the scale guard; q never exceeds 50; for R = 5, r = 3 and
\* d >= 1, q = 3.
C14_RotationCount ==
  (SpiroSampling /\ AllPositive)
  => LET scaled == CheckAndScaleParameters(R, r, self_d)
         num == RoundHalfEven(RSub(scaled[1], scaled[2]))
         den == RoundHalfEven(scaled[2])
         g == Gcd(Abs(num), Abs(den))
     IN  /\ R_scaled = scaled[1] /\ r_scaled = scaled[2]
         /\ den > 0 /\ g > 0 /\ den % g = 0
         /\ q = Min(den \div g, 50)
         /\ q <= 50
         /\ (R = <<5, 1>> /\ r = <<3, 1>> /\ ~Less(self_d, <<1, 1>>)) => q = 3
         /\ spc = "done" => Len(spiro_result) = RangeLen(360 * q, angle_step)

\* C14 witness: a finished call on R = 5, r = 3, d = 2 that used 3 rotations.
C14_Witness ==
  /\ spc = "done" /\ AllPositive
  /\ R = <<5, 1>> /\ r = <<3, 1>> /\ self_d = <<2, 1>>
  /\ q = 3
  /\ Len(spiro_result) > 0

\* Whole multiples of 360 degrees.
WholeTurns(x) == x[2] = 1 /\ x[1] % 360 = 0
\* Positive integers R > r, a positive d, and r / gcd(R - r, r) <= 50.
ClosingRadii ==
  /\ ~IsTiny(R) /\ ~IsTiny(r)
  /\ R[2] = 1 /\ r[2] = 1 /\ r[1] > 0 /\ R[1] > r[1]
  /\ Positive(self_d)
  /\ r[1] \div Gcd(R[1] - r[1], r[1]) <= 50

\* C15 (closure): for positive integers R > r with r / gcd(R - r, r) <= 50, at
\* theta = 360 * q degrees both angle arguments of the equations, theta and
\* ((1 - k) / k) * theta = theta * (R - r) / r, are whole multiples of 360 degrees,
\* so the curve point at 360 * q degrees is the point at theta = 0.
C15_Closure ==
  (SpiroSampling /\ ClosingRadii)
  => LET args == AngleArguments(k_ratio, 360 * q)
     IN  /\ q >= 1
         /\ args[1] = <<360 * q, 1>>
         /\ args[2] = Rat(360 * q * (R[1] - r[1]), r[1])
         /\ WholeTurns(args[1])
         /\ WholeTurns(args[2])
         /\ HypotrochoidPoint(fixed_center, R_scaled, k_ratio, l_ratio, scale_factor, 360 * q)
              = HypotrochoidPoint(fixed_center, R_scaled, k_ratio, l_ratio, scale_factor, 0)

\* C15 witness: a finished call on R = 5, r = 3 with a scaled d = 0.5, whose second
\* angle argument at 1080 degrees is 720 degrees.
C15_Witness ==
  /\ spc = "done" /\ ClosingRadii
  /\ R = <<5, 1>> /\ r = <<3, 1>> /\ self_d = <<1, 2>>
  /\ scale_factor = <<100, 1>>
  /\ q = 3
  /\ AngleArguments(k_ratio, 360 * q)[2] = <<720, 1>>

\* ceil(a / b) for b > 0
Ceil(a, b) == -((-a) \div b)

\* C16 (sample set and order): for a positive integer angle step s and q >= 1,
\* generate returns exactly one point for each theta in {0, s, 2s, ...} with
\* theta < 360 * q, in increasing theta order; 360 * q itself is never sampled; the
\* list has ceil(360 * q / s) points, at most ceil(18000 / s).
C16_SampleSetAndOrder ==
  (SpiroSampling /\ q >= 1 /\ angle_step > 0)
  => /\ \A i \in 1..Len(points) :
          /\ (i - 1) * angle_step < 360 * q
          /\ points[i] = HypotrochoidPoint(fixed_center, R_scaled, k_ratio, l_ratio,
                                           scale_factor, (i - 1) * angle_step)
     /\ theta_deg = Len(points) * angle_step
     /\ spc = "done"
          => /\ spiro_result = points
             /\ Len(spiro_result) * angle_step >= 360 * q
             /\ Len(spiro_result) = Ceil(360 * q, angle_step)
             /\ Len(spiro_result) <= Ceil(18000, angle_step)

\* C16 witness: a finished call with q = 3 and step 100 that returned the 11 points
\* of theta = 0, 100, .., 1000.
C16_Witness ==
  /\ spc = "done" /\ SpiroSampling
  /\ q = 3 /\ angle_step = 100
  /\ Len(spiro_result) = 11
  /\ theta_deg = 1100

\* A call of SpiroGenerator.generate whose scale guard has run.
ScaleGuardRan == spc \in {"checked", "loop", "done", "raised"}
\* 10^n for some integer n >= 1 (up to the exponents of the model's rationals).
IsPowerOfTen(x) == \E n \in 1..9 : x = <<TenPower(n), 1>>

\* C17 (scale guard): _check_and_scale_parameters uses only the positive values
\* among R, r, d; if their minimum is >= 1 (or none is positive) it returns R, r, d
\* unchanged with scale factor 1; if the minimum is below 1 it returns all three
\* multiplied by the same factor 10^n, n >= 1, and the scaled minimum is at least 1.
C17_ScaleGuard ==
  ScaleGuardRan
  => /\ spc # "raised"
     /\ LET positive_values == {val \in {R, r, self_d} : Positive(val)}
        IN  IF positive_values = {} \/ ~Less(MinValue(positive_values), <<1, 1>>)
            THEN /\ R_scaled = R /\ r_scaled = r /\ d_scaled = self_d
                 /\ scale_factor = <<1, 1>>
            ELSE /\ IsPowerOfTen(scale_factor)
                 /\ R_scaled = RMul(R, scale_factor)
                 /\ r_scaled = RMul(r, scale_factor)
                 /\ d_scaled = RMul(self_d, scale_factor)
                 /\ ~Less(RMul(MinValue(positive_values), scale_factor), <<1, 1>>)

\* Positive integers R, r, d.
PositiveIntegers ==
  /\ ~IsTiny(R) /\ ~IsTiny(r)
  /\ R[2] = 1 /\ r[2] = 1 /\ self_d[2] = 1
  /\ R[1] > 0 /\ r[1] > 0 /\ self_d[1] > 0

\* C18 (scale-guard transparency): for positive integers R, r, d and every n >= 1,
\* generating with (R, r, d) * 10^-n (same fixed center and angle step) uses the
\* same k, l and q as generating with (R, r, d), returns the same number of points,
\* and each point's offset from the fixed center is the corresponding offset
\* scaled by 10^-n.
C18_ScaleTransparency ==
  (spc = "done" /\ SpiroSampling /\ PositiveIntegers)
  => \A n \in 1..MaxScaleExp :
       LET down == <<1, TenPower(n)>>
           R_down == RMul(R, down)
           r_down == RMul(r, down)
           d_down == RMul(self_d, down)
           scaled == CheckAndScaleParameters(R_down, r_down, d_down)
           pts == SpiroPoints(fixed_center, R_down, r_down, d_down, angle_step)
       IN  /\ KRatio(scaled[1], scaled[2]) = k_ratio
           /\ LRatio(scaled[2], scaled[3]) = l_ratio
           /\ Rotations(scaled[1], scaled[2]) = q
           /\ Len(pts) = Len(spiro_result)
           /\ \A i \in 1..Len(pts) :
                /\ pts[i][1] = spiro_result[i][1] /\ pts[i][2] = spiro_result[i][2]
                /\ pts[i][3] = RMul(spiro_result[i][3], down)
                /\ pts[i][4] = RMul(spiro_result[i][4], down)
                /\ pts[i][5] = spiro_result[i][5] /\ pts[i][6] = spiro_result[i][6]

\* C19 (non-positive parameters never raise): for all finite centers, radii R and r
\* (positive, zero or negative) and pen point, construction succeeds and stores
\* R, r and d = distance(rolling center, pen point) >= 0, and generate with a
\* positive integer angle step returns a (possibly empty) list without raising.
C19_NeverRaises ==
  /\ spc \in {"idle", "checked", "loop", "done", "raised"}
  /\ ~Less(self_d, Zero)
  /\ spc # "raised"
  /\ spc = "done" => spiro_result = points

\* C20 (purity): FractalGenerator.generate leaves base_shapes_polylines,
\* is_closed_flags and unit_pattern unchanged, SpiroGenerator.generate leaves
\* fixed_center, R, r and d unchanged, and whatever calls were made before, a
\* finished generate call returns the value determined by the instance and its
\* argument alone.
C20_Purity ==
  [][ /\ UNCHANGED <<base_shapes_polylines, is_closed_flags, unit_pattern>>
      /\ UNCHANGED <<fixed_center, R, r, self_d>>
      /\ pc' = "done"
           => result' = GenerateResult(base_shapes_polylines, is_closed_flags, depth',
                                       unit_pattern)
      /\ spc' = "done"
           => spiro_result' = SpiroPoints(fixed_center, R, r, self_d, angle_step')
    ]_vars

\* C20 witness: both generators have finished a call with a non-empty result, the
\* sampler after its scale guard scaled local copies by 100, and R, r, d are as
\* constructed.
C20_Witness ==
  /\ pc = "done" /\ result # <<>> /\ depth > 0
  /\ spc = "done" /\ spiro_result # <<>>
  /\ scale_factor = <<100, 1>> /\ R_scaled = <<500, 1>>
  /\ R = <<5, 1>> /\ r = <<3, 1>> /\ self_d = <<1, 2>>

\* The transformed point list of the k-th segment (from 1) of a round on pl.
TransformedOf(pl, closed, k) == ApplyPatternToSegment(Segments(pl, closed)[k], unit_pattern)
\* The full list of segment 0, then each later list without its first point.
RECURSIVE JoinedUpTo(_, _, _)
JoinedUpTo(pl, closed, count) ==
  IF count <= 0 THEN <<>>
  ELSE IF count = 1 THEN TransformedOf(pl, closed, 1)
  ELSE LET t == TransformedOf(pl, closed, count)
       IN  JoinedUpTo(pl, closed, count - 1) \o [j \in 1..(Len(t) - 1) |-> t[j + 1]]
RECURSIVE SumLen(_, _, _)
SumLen(pl, closed, count) ==
  IF count <= 0 THEN 0
  ELSE SumLen(pl, closed, count - 1) + Len(TransformedOf(pl, closed, count))
\* The later segments (i >= 1) whose transformed list has a leading point.
LaterWithPoints(pl, closed) ==
  {k \in 2..Len(Segments(pl, closed)) : Len(TransformedOf(pl, closed, k)) >= 1}

\* C21 (join de-duplication): the polyline produced by one substitution round is
\* the full transformed point list of segment 0 followed, for each later segment
\* in path order, by that segment's transformed list without its first point; no
\* other point is dropped.
C21_JoinDeduplication ==
  [][ (pc = "recursion" /\ pc' = "recursion" /\ rounds' = rounds + 1)
      => LET closed == is_closed_flags[idx]
             count == Len(Segments(polyline, closed))
         IN  /\ polyline' = JoinedUpTo(polyline, closed, count)
             /\ Len(polyline') = SumLen(polyline, closed, count)
                                   - Cardinality(LaterWithPoints(polyline, closed))
    ]_vars

\* C21 witness: the first round of an open 3-point polyline without zero-length
\* segment under a 3-point pattern has run: 3 points of segment 0, then 2 of
\* segment 1.
C21_Witness ==
  /\ pc = "recursion" /\ rounds = 1
  /\ ~is_closed_flags[idx]
  /\ Len(base_shapes_polylines[idx]) = 3 /\ NoZeroSegment(base_shapes_polylines[idx], FALSE)
  /\ Len(RawPattern) = 3 /\ PatternNonDegenerate
  /\ Len(polyline) = 5
  /\ polyline = JoinedUpTo(base_shapes_polylines[idx], FALSE, 2)

\* generate(dep) on the instance as it is.
GenerateOf(dep) == GenerateResult(base_shapes_polylines, is_closed_flags, dep, unit_pattern)

\* C22 (round composition): for every d >= 0, the result of generate(d + 1) for a
\* base polyline equals one substitution round applied to that polyline's
\* generate(d) result, with the same unit pattern and the polyline's original
\* closed flag; the flag is never changed between rounds.
C22_RoundComposition ==
  /\ (pc = "recursion" /\ rounds >= 1)
       => polyline = SubstitutionRound(
                       ApplyRecursion(base_shapes_polylines[idx], rounds - 1,
                                      is_closed_flags[idx], unit_pattern),
                       is_closed_flags[idx], unit_pattern)
  /\ (pc = "done" /\ depth >= 1)
       => LET before == GenerateOf(depth - 1)
          IN  /\ Len(result) = Len(before)
              /\ Len(result) = Len(Kept)
              /\ \A j \in 1..Len(result) :
                   PointsToPolyline(result[j])
                     = SubstitutionRound(PointsToPolyline(before[j]), KeptFlags[j],
                                         unit_pattern)

\* C22 witness: generate(2) has returned for a closed polyline without zero-length
\* segment under a 3-point pattern, and differs from generate(1).
C22_Witness ==
  /\ pc = "done" /\ depth = 2
  /\ Len(result) = 1 /\ is_closed_flags[1]
  /\ NoZeroSegment(base_shapes_polylines[1], TRUE)
  /\ Len(RawPattern) = 3 /\ PatternNonDegenerate
  /\ result # GenerateOf(1)
  /\ PointsToPolyline(result[1])
       = SubstitutionRound(PointsToPolyline(GenerateOf(1)[1]), TRUE, unit_pattern)

\* The shape being processed is closed, has n >= 2 points and no zero-length
\* segment (the wraparound one included), and the raw pattern has m >= 2 points,
\* distinct ends and pairwise-distinct consecutive points.
ClosedRegular(k) ==
  /\ k \in 1..ZipLen
  /\ is_closed_flags[k]
  /\ Len(base_shapes_polylines[k]) >= 2
  /\ NoZeroSegment(base_shapes_polylines[k], TRUE)
  /\ PatternNonDegenerate /\ ConsecutiveDistinct(RawPattern)

\* C23 (closed polyline over several rounds): under those conditions, after every
\* round d >= 1 the last point of the result equals its first point, so in each
\* later round the wraparound segment has zero length and contributes only one
\* repeated point; generate(d) returns n * (m - 1)^d + d points.
C23_ClosedRounds ==
  LET n == Len(base_shapes_polylines[idx])
      m == Len(RawPattern)
  IN  /\ (pc = "recursion" /\ rounds >= 1 /\ ClosedRegular(idx))
           => /\ polyline[Len(polyline)] = polyline[1]
              /\ Len(polyline) = n * Pow(m - 1, rounds) + rounds
              /\ InRound
                   => LET wrap == RoundSegments[Len(RoundSegments)]
                      IN  /\ wrap = <<polyline[Len(polyline)], polyline[1]>>
                          /\ wrap[1] = wrap[2]
                          /\ Transformed(wrap, Len(RoundSegments) - 1, unit_pattern)
                               = <<polyline[1]>>
      /\ (pc = "done" /\ depth >= 0 /\ ClosedRegular(1) /\ Len(base_shapes_polylines) = 1)
           => /\ Len(result) = 1
              /\ Len(result[1])
                   = 2 * (Len(base_shapes_polylines[1]) * Pow(m - 1, depth) + depth)

\* C23 witness: the second round of a closed triangle under a 3-point pattern is
\* about to run on the 7 points of round 1, the last equal to the first.
C23_Witness ==
  /\ InRound /\ rounds = 1 /\ ClosedRegular(idx)
  /\ Len(base_shapes_polylines[idx]) = 3 /\ Len(RawPattern) = 3
  /\ Len(polyline) = 7
  /\ polyline[7] = polyline[1]

\* The depth argument falls by exactly 1 per round, and the processing of a shape
\* ends after exactly max(depth, 0) rounds.
RoundCount ==
  /\ pc = "recursion" => d = depth - rounds
  /\ (pc = "raised" \/ (pc = "recursion" /\ BaseCase(d))) => rounds = Max(depth, 0)

\* C24 (termination and round count): for every integer depth and every finite
\* input generate(depth) terminates, and for each processed base polyline it runs
\* exactly max(depth, 0) substitution rounds, the depth argument decreasing by
\* exactly 1 per round until it reaches 0.
C24_TerminationAndRoundCount ==
  /\ []RoundCount
  /\ (pc \in {"generate", "recursion"}) ~> (pc = "done")

\* The number of (shape, flag) pairs and the positions, in increasing order, of the
\* paired shapes with at least 2 points.
Paired == Min(Len(base_shapes_polylines), Len(is_closed_flags))
IsKeptPaired(k) == k <= Paired /\ IsKept(k)
KeptPaired == SelectSeq([k \in 1..Len(base_shapes_polylines) |-> k], IsKeptPaired)

\* C25 (flag list of another length): when is_closed_flags is shorter than the list
\* of base shapes, generate does not raise; it processes only the first
\* len(is_closed_flags) shapes and leaves the remaining shapes out of the result;
\* when it is longer, the extra flags are ignored.
C25_FlagLengthMismatch ==
  /\ pc # "raised"
  /\ pc = "recursion" => idx <= Paired
  /\ pc = "done" =>
       /\ Len(result) <= Paired
       /\ result = [j \in 1..Len(KeptPaired) |->
                      PolylineToPoints(ApplyRecursion(base_shapes_polylines[KeptPaired[j]], depth,
                                                      is_closed_flags[KeptPaired[j]],
                                                      unit_pattern))]

\* C25 witness: two shapes of 2 points and one flag, generate(1) has returned one
\* list under an applicable pattern: the result for the first shape.
C25_Witness ==
  /\ pc = "done" /\ depth = 1
  /\ Len(base_shapes_polylines) = 2 /\ Len(is_closed_flags) = 1
  /\ IsKept(1) /\ IsKept(2) /\ PatternNonDegenerate
  /\ base_shapes_polylines[1] # base_shapes_polylines[2]
  /\ Len(result) = 1
  /\ result[1] = PolylineToPoints(SubstitutionRound(base_shapes_polylines[1],
                                                     is_closed_flags[1], unit_pattern))

\* The positive pen distances of the constructor arguments of InitSpiro.
PositivePenDistances ==
  {dist \in {Dist(c, p) : c \in RollingCenters, p \in PenPositions} : Positive(dist)}
\* The rotation count of generate for the instance's radii under pen distance dist.
RotationsUnder(dist) ==
  LET scaled == CheckAndScaleParameters(R, r, dist)
  IN  Rotations(scaled[1], scaled[2])

\* C26 (rotation count independent of the pen distance): for all positive R and r,
\* integer or not, and any two pen distances d1, d2 > 0, generate uses the same
\* rotation count q and returns the same number of points.
C26_PenDistanceIndependence ==
  (SpiroSampling /\ AllPositive)
  => \A dist \in PositivePenDistances :
       /\ q = RotationsUnder(dist)
       /\ spc = "done" =>
            Len(spiro_result) = Len(SpiroPoints(fixed_center, R, r, dist, angle_step))

\* The points of pts with the center replaced by center.
MovedTo(pts, center) ==
  [i \in 1..Len(pts) |-> <<center[1], center[2], pts[i][3], pts[i][4], pts[i][5], pts[i][6]>>]

\* C27 (first sample and translation): whenever generate returns a non-empty list,
\* its first point, the sample at theta = 0, is (cx + R - r + d, cy) for the fixed
\* center (cx, cy), the scale factor undone; moving the fixed center by (a, b)
\* moves every returned point by exactly (a, b); the rolling-circle center has no
\* influence on the output except through d.
C27_FirstSampleAndTranslation ==
  (spc = "done" /\ spiro_result # <<>>)
  => LET first == spiro_result[1]
     IN  /\ first[5] = Zero /\ first[6] = Zero
         /\ RAdd(first[1], RAdd(first[3], first[4]))
              = RAdd(fixed_center[1], RAdd(RSub(R, r), self_d))
         /\ first[2] = fixed_center[2]
         /\ \A center \in SpiroCenters :
              SpiroPoints(center, R, r, self_d, angle_step) = MovedTo(spiro_result, center)
         /\ \A cp \in CenterPens :
              Dist(cp[1], cp[2]) = self_d
                => spiro_result = SpiroPoints(fixed_center, R, r, Dist(cp[1], cp[2]), angle_step)

\* C27 witness: a curve returned for fixed center (1, -1), the rolling circle
\* centered off the origin, the parameters scaled by the guard: the first point
\* is (1 + 5 - 3 + 1/2, -1).
C27_Witness ==
  /\ spc = "done" /\ Len(spiro_result) >= 2
  /\ fixed_center = <<<<1, 1>>, <<-1, 1>>>> /\ rolling_center # <<Zero, Zero>>
  /\ R = <<5, 1>> /\ r = <<3, 1>> /\ self_d = <<1, 2>> /\ scale_factor # <<1, 1>>
  /\ spiro_result[1] = <<<<1, 1>>, <<-1, 1>>, <<2, 1>>, <<1, 2>>, Zero, Zero>>

\* C28 (any angle step): for positive R, r, d and every integer angle_step,
\* including 0 and negative values, SpiroGenerator.generate returns a list, empty
\* in the worst case, and never raises.
C28_AnyAngleStep ==
  AllPositive
  => /\ spc # "raised"
     /\ spc = "done" => spiro_result \in Seq(Seq(Seq(Int)))

\* val < 0
Negative(x) == ~IsTiny(x) /\ x[1] < 0

\* C29 (negative rolling radius): for every r < 0, any finite R # 0, d > 0 and a
\* positive angle step, the computed rotation count q is <= 0 and generate returns
\* the empty list, whereas with a negative R and positive r and d it still returns
\* a non-empty list.
C29_NegativeRollingRadius ==
  /\ (Negative(r) /\ R # Zero /\ Positive(self_d))
       => /\ spc # "raised"
          /\ q <= 0
          /\ spc = "done" => spiro_result = <<>>
  /\ (Negative(R) /\ Positive(r) /\ Positive(self_d))
       => /\ spc # "raised"
          /\ spc = "done" => spiro_result # <<>>

====
